---- MODULE Spec2Model ----
(***************************************************************************)
(* Model of srcds_proxy's UDP front-end: Serve (the read/dispatch loop),   *)
(* doHandle (one bounded Handler invocation per datagram), the idle-timer  *)
(* watcher and the per-dispatch cancellation watchers.                     *)
(*                                                                         *)
(* Time is discrete: Tick advances the clock by one unit and runs the      *)
(* timers that are armed. The program's own steps take no time: a tick     *)
(* passes only when no goroutine can run, that is, while the loop is       *)
(* blocked in its read, is inside the Handler, or has returned. Datagram   *)
(* payloads are sequences of one tag byte (the arrival number), so that    *)
(* order, truncation and stale buffer contents are visible.                *)
(***************************************************************************)
EXTENDS Naturals, Sequences, FiniteSets

\* ---------------------------------------------------------------- bounds

\* Largest idle timeout Serve is called with, in ticks.
MaxTimeout == 2

\* Number of datagrams the network delivers in one run.
MaxDatagrams == 2

\* Number of goroutines that use the buffer pool concurrently.
MaxBorrowers == 2

\* Number of buffers newBuffer may make in one run.
MaxBuffers == 3

\* ------------------------------------------------- constants of the program

\* MaxDatagramSize, the capacity of Serve's scratch buffer, in bytes (scaled
\* down; its declaration is not among the files at hand).
MaxDatagramSize == 2

\* config.HandleTimeout, the per-datagram Handler deadline, in ticks (scaled
\* down; its declaration is not among the files at hand).
HandleTimeout == 2

\* ------------------------------------------------------------ value sets

Timeouts == {0, MaxTimeout}

\* Lengths of the datagrams on the wire: empty, fitting the buffer, and one
\* byte too long for it.
Lengths == 0..(MaxDatagramSize + 1)

\* A datagram of length len is len copies of its tag byte.
Payload(len, tag) == [i \in 1..len |-> tag]

Min(a, b) == IF a <= b THEN a ELSE b

HandlerResults == {"nil", "ErrHandler"}

Borrowers == 1..MaxBorrowers

VARIABLES
  pc,          \* position of the Serve loop
  n,           \* Serve's n: byte count of the last read
  err,         \* Serve's err: error of the last read
  buf,         \* Serve's scratch buffer
  ret,         \* Serve's return value ("none" while running)
  timeout,     \* Serve's timeout parameter
  timerLeft,   \* idle timer: ticks until expiry, 0 = expired (or no timer)
  timerC,      \* idle timer's channel holds a value
  idle,        \* idle watcher goroutine: "none", "wait", "woken", "exit"
  done,        \* the done channel is closed
  connClosed,  \* the connection is closed
  closedBy,    \* who closed it first: "none", "watcher", "caller"
  inbox,       \* tags of the datagrams queued in the socket
  arrived,     \* number of datagrams delivered so far
  ctxErr,      \* Handler context: "none", "active", "Canceled", "DeadlineExceeded"
  ctxLeft,     \* ticks until the Handler context's deadline
  waiters,     \* cancellation watchers still waiting on done: cur, that of the
               \* dispatch in flight; old, the number of those of earlier ones
  handled,     \* payloads given to the Handler, in order
  \* history, read by the properties only
  received,    \* payloads returned by successful reads, in order
  readFlags,   \* what held when the last read returned
  hist,        \* counters and flags about the run so far
  \* the buffer pool and its borrowers
  once,                 \* sync.Once: done, its flag; m, its mutex is held
  singletonBufferPool,  \* the package variable: 0 is nil, else a pool instance
  instances,            \* number of bufferPool instances created so far
  pool,                 \* per instance, the buffers the sync.Pool holds
  allocated,            \* number of buffers made by newBuffer so far
  borrowers             \* per borrower: pc, bp (its pool), held (its buffer),
                        \* from (history: what served its Get, "pool" or "new")

vars == <<pc, n, err, buf, ret, timeout, timerLeft, timerC, idle, done,
          connClosed, closedBy, inbox, arrived, ctxErr, ctxLeft, waiters,
          handled, received, readFlags, hist, once, singletonBufferPool,
          instances, pool, allocated, borrowers>>

poolVars  == <<once, singletonBufferPool, instances, pool, allocated,
               borrowers>>
serveVars == <<pc, n, err, buf, ret>>
timerVars == <<timerLeft, timerC>>
connVars  == <<connClosed, closedBy>>
netVars   == <<inbox, arrived>>
ctxVars   == <<ctxErr, ctxLeft>>

\* ------------------------------------------------------------------ Init

\* make([]byte, MaxDatagramSize): a zeroed buffer.
NewBuf == [i \in 1..MaxDatagramSize |-> 0]

\* sinceArrival and sinceReset count ticks up to timeout and stay there: a
\* value of timeout says that some gap has reached the idle timeout.
InitHist == [
  startedAfterDone |-> 0,       \* Handler invocations begun with done fired
  lateStartDone    |-> FALSE,   \* a datagram read after done fired was dispatched
  lateStartExpired |-> FALSE,   \* a datagram read after the timer expired was dispatched
  dropped          |-> FALSE,   \* Serve returned nil with a datagram read and not dispatched
  completed        |-> 0,       \* Handler invocations that returned
  handlerErr       |-> "none",  \* the error a Handler invocation returned
  doneAtReturn     |-> FALSE,   \* done had fired when Serve returned
  expiredAtReturn  |-> FALSE,   \* the idle timer had expired when Serve returned
  sinceArrival     |-> 0,       \* ticks since the last arrival (or start)
  sinceReset       |-> 0,       \* ticks since the last timer reset (or start)
  handleElapsed    |-> 0,       \* ticks since the current dispatch began
  closes           |-> 0,       \* Close calls made by the idle watcher
  doneAtClose      |-> FALSE ]  \* done had fired when the caller closed

NoFlags == [done |-> FALSE, expired |-> FALSE]

\* The state of Serve when it enters its loop: the timer is created and its
\* watcher started only for timeout > 0.
Init ==
  /\ timeout \in Timeouts
  /\ pc = "read"
  /\ n = 0
  /\ err = "nil"
  /\ buf = NewBuf
  /\ ret = "none"
  /\ timerLeft = timeout
  /\ timerC = FALSE
  /\ idle = IF timeout > 0 THEN "wait" ELSE "none"
  /\ done = FALSE
  /\ connClosed = FALSE
  /\ closedBy = "none"
  /\ inbox = <<>>
  /\ arrived = 0
  /\ ctxErr = "none"
  /\ ctxLeft = 0
  /\ waiters = [cur |-> FALSE, old |-> 0]
  /\ handled = <<>>
  /\ received = <<>>
  /\ readFlags = NoFlags
  /\ hist = InitHist
  /\ once = [done |-> FALSE, m |-> FALSE]
  /\ singletonBufferPool = 0
  /\ instances = 0
  /\ pool = [i \in Borrowers |-> {}]
  /\ allocated = 0
  /\ borrowers = [b \in Borrowers |-> [pc |-> "call", bp |-> 0, held |-> 0,
                                       from |-> "none"]]

TimerExpired == timeout > 0 /\ timerLeft = 0

Flags == [done |-> done, expired |-> TimerExpired]

\* Serve returns v, and its locals are gone; h is the history record of the
\* step that returns.
Return(v, h) ==
  /\ pc' = "returned"
  /\ ret' = v
  /\ n' = 0
  /\ err' = "nil"
  /\ buf' = NewBuf
  /\ readFlags' = NoFlags
  /\ hist' = [h EXCEPT !.doneAtReturn = done,
                       !.expiredAtReturn = TimerExpired,
                       !.dropped = (pc \in {"select", "reset"} /\ err = "nil")]

\* ------------------------------------------------------ the Serve loop

\* connection.ReadFromUDP(buf) returns the datagram at the head of the
\* socket's queue: at most len(buf) bytes are copied over the front of buf,
\* the rest of buf keeps what it held, the rest of the datagram is dropped.
\* (The datagram's length len is drawn here: nothing sees it before the read.)
ReadDatagram(len) ==
  /\ pc = "read"
  /\ ~connClosed
  /\ inbox # <<>>
  /\ LET tag == Head(inbox)
         k == Min(len, Len(buf))
     IN /\ n' = k
        /\ buf' = [i \in 1..Len(buf) |-> IF i <= k THEN tag ELSE buf[i]]
        /\ received' = Append(received, SubSeq(Payload(len, tag), 1, k))
  /\ err' = "nil"
  /\ inbox' = Tail(inbox)
  /\ readFlags' = Flags
  /\ pc' = "select"
  /\ UNCHANGED <<ret, timeout, poolVars, timerVars, idle, done, connVars, arrived,
                 ctxVars, waiters, handled, hist>>

\* ReadFromUDP on a closed connection (closed before or during the read)
\* fails at once.
ReadClosed ==
  /\ pc = "read"
  /\ connClosed
  /\ n' = 0
  /\ err' = "ErrClosed"
  /\ readFlags' = Flags
  /\ pc' = "select"
  /\ UNCHANGED <<buf, ret, timeout, poolVars, timerVars, idle, done, connVars, netVars,
                 ctxVars, waiters, handled, received, hist>>

\* ReadFromUDP fails on an open connection (an error from the OS).
ReadError ==
  /\ pc = "read"
  /\ ~connClosed
  /\ n' = 0
  /\ err' = "ErrIO"
  /\ readFlags' = Flags
  /\ pc' = "select"
  /\ UNCHANGED <<buf, ret, timeout, poolVars, timerVars, idle, done, connVars, netVars,
                 ctxVars, waiters, handled, received, hist>>

\* Mutant: the read error is looked at before the done channel.
SelectDone_ErrFirst ==
  /\ pc = "select"
  /\ IF err # "nil"
       THEN Return(err, hist)
       ELSE IF done
         THEN Return("nil", hist)
         ELSE /\ pc' = "reset"
              /\ UNCHANGED <<n, err, buf, ret, readFlags, hist>>
  /\ UNCHANGED <<timeout, poolVars, timerVars, idle, done, connVars, netVars, ctxVars,
                 waiters, handled, received>>

\* Mutant: the done channel is not looked at.
SelectDone_NoCheck ==
  /\ pc = "select"
  /\ pc' = "reset"
  /\ UNCHANGED <<n, err, buf, ret, readFlags, hist>>
  /\ UNCHANGED <<timeout, poolVars, timerVars, idle, done, connVars, netVars, ctxVars,
                 waiters, handled, received>>

\* select { case <-done: return nil; default: }
SelectDone ==
  /\ pc = "select"
  /\ IF done
       THEN Return("nil", hist)
       ELSE /\ pc' = "reset"
            /\ UNCHANGED <<n, err, buf, ret, readFlags, hist>>
  /\ UNCHANGED <<timeout, poolVars, timerVars, idle, done, connVars, netVars, ctxVars,
                 waiters, handled, received>>

\* Mutant: what timer.Reset reports is not used.
TimerActive_Always == TRUE

\* What timer.Reset reports: whether the timer was still active.
TimerActive == timerLeft > 0

\* Mutant: the read error is returned before the timer is reset.
TimerReset_ErrFirst ==
  /\ pc = "reset"
  /\ IF err # "nil"
       THEN /\ Return(err, hist)
            /\ UNCHANGED timerLeft
       ELSE IF timeout > 0
         THEN /\ timerLeft' = timeout
              /\ LET h == [hist EXCEPT !.sinceReset = IF @ < timeout THEN 0 ELSE @]
                 IN IF TimerActive
                      THEN /\ pc' = "checkErr"
                           /\ hist' = h
                           /\ UNCHANGED <<n, err, buf, ret, readFlags>>
                      ELSE Return("nil", h)
         ELSE /\ pc' = "checkErr"
              /\ UNCHANGED <<n, err, buf, ret, readFlags, hist, timerLeft>>
  /\ UNCHANGED <<timeout, poolVars, timerC, idle, done, connVars, netVars, ctxVars,
                 waiters, handled, received>>

\* Mutant: the timer's state is tested but the timer is not re-armed.
TimerReset_NoRearm ==
  /\ pc = "reset"
  /\ IF timeout > 0
       THEN /\ UNCHANGED timerLeft
            /\ LET h == [hist EXCEPT !.sinceReset = IF @ < timeout THEN 0 ELSE @]
               IN IF TimerActive
                    THEN /\ pc' = "checkErr"
                         /\ hist' = h
                         /\ UNCHANGED <<n, err, buf, ret, readFlags>>
                    ELSE Return("nil", h)
       ELSE /\ pc' = "checkErr"
            /\ UNCHANGED <<n, err, buf, ret, readFlags, hist, timerLeft>>
  /\ UNCHANGED <<timeout, poolVars, timerC, idle, done, connVars, netVars, ctxVars,
                 waiters, handled, received>>

\* if timeout > 0 && !timer.Reset(timeout) { return nil }
\* Reset re-arms the timer and reports whether it was still active.
TimerReset ==
  /\ pc = "reset"
  /\ IF timeout > 0
       THEN /\ timerLeft' = timeout
            /\ LET h == [hist EXCEPT !.sinceReset = IF @ < timeout THEN 0 ELSE @]
               IN IF TimerActive
                    THEN /\ pc' = "checkErr"
                         /\ hist' = h
                         /\ UNCHANGED <<n, err, buf, ret, readFlags>>
                    ELSE Return("nil", h)
       ELSE /\ pc' = "checkErr"
            /\ UNCHANGED <<n, err, buf, ret, readFlags, hist, timerLeft>>
  /\ UNCHANGED <<timeout, poolVars, timerC, idle, done, connVars, netVars, ctxVars,
                 waiters, handled, received>>

\* Mutant: a read error does not stop the loop.
CheckReadError_Ignore ==
  /\ pc = "checkErr"
  /\ pc' = "doHandle"
  /\ UNCHANGED <<n, err, buf, ret, readFlags, hist>>
  /\ UNCHANGED <<timeout, poolVars, timerVars, idle, done, connVars, netVars, ctxVars,
                 waiters, handled, received>>

\* Mutant: a read error ends Serve like a clean stop.
CheckReadError_Nil ==
  /\ pc = "checkErr"
  /\ IF err # "nil"
       THEN Return("nil", hist)
       ELSE /\ pc' = "doHandle"
            /\ UNCHANGED <<n, err, buf, ret, readFlags, hist>>
  /\ UNCHANGED <<timeout, poolVars, timerVars, idle, done, connVars, netVars, ctxVars,
                 waiters, handled, received>>

\* if err != nil { return err }
CheckReadError ==
  /\ pc = "checkErr"
  /\ IF err # "nil"
       THEN Return(err, hist)
       ELSE /\ pc' = "doHandle"
            /\ UNCHANGED <<n, err, buf, ret, readFlags, hist>>
  /\ UNCHANGED <<timeout, poolVars, timerVars, idle, done, connVars, netVars, ctxVars,
                 waiters, handled, received>>

\* Mutant: the whole buffer is passed, not its first n bytes.
HandleSlice_Whole == buf

\* The slice Serve passes to doHandle: buf[:n].
HandleSlice == SubSeq(buf, 1, n)

\* Mutant: an empty slice is dispatched like any other.
doHandle_NoLenCheck ==
  /\ pc = "doHandle"
  /\ pc' = "handling"
  /\ handled' = Append(handled, HandleSlice)
  /\ waiters' = [waiters EXCEPT !.cur = TRUE]
  /\ ctxErr' = "active"
  /\ ctxLeft' = HandleTimeout
  /\ hist' = [hist EXCEPT
       !.startedAfterDone = @ + (IF done THEN 1 ELSE 0),
       !.lateStartDone = @ \/ readFlags.done,
       !.lateStartExpired = @ \/ readFlags.expired]
  /\ readFlags' = NoFlags
  /\ UNCHANGED <<n, err, buf, ret, timeout, poolVars, timerVars, idle, done, connVars,
                 netVars, received>>

\* Mutant: the Handler's context gets no deadline.
doHandle_NoDeadline ==
  /\ pc = "doHandle"
  /\ IF Len(HandleSlice) = 0
       THEN /\ pc' = "read"
            /\ UNCHANGED <<ctxVars, waiters, handled, hist>>
            /\ readFlags' = NoFlags
       ELSE /\ pc' = "handling"
            /\ handled' = Append(handled, HandleSlice)
            /\ waiters' = [waiters EXCEPT !.cur = TRUE]
            /\ ctxErr' = "active"
            /\ ctxLeft' = 0
            /\ hist' = [hist EXCEPT
                 !.startedAfterDone = @ + (IF done THEN 1 ELSE 0),
                 !.lateStartDone = @ \/ readFlags.done,
                 !.lateStartExpired = @ \/ readFlags.expired]
            /\ readFlags' = NoFlags
  /\ UNCHANGED <<n, err, buf, ret, timeout, poolVars, timerVars, idle, done, connVars,
                 netVars, received>>

\* Mutant: the dispatch runs in a goroutine of its own and the loop reads on.
doHandle_Async ==
  /\ pc = "doHandle"
  /\ pc' = "read"
  /\ IF Len(HandleSlice) = 0
       THEN /\ UNCHANGED <<ctxVars, waiters, handled, hist>>
            /\ readFlags' = NoFlags
       ELSE /\ handled' = Append(handled, HandleSlice)
            /\ waiters' = [waiters EXCEPT !.cur = TRUE]
            /\ ctxErr' = "active"
            /\ ctxLeft' = HandleTimeout
            /\ hist' = [hist EXCEPT
                 !.startedAfterDone = @ + (IF done THEN 1 ELSE 0),
                 !.lateStartDone = @ \/ readFlags.done,
                 !.lateStartExpired = @ \/ readFlags.expired]
            /\ readFlags' = NoFlags
  /\ UNCHANGED <<n, err, buf, ret, timeout, poolVars, timerVars, idle, done, connVars,
                 netVars, received>>

\* doHandle up to the call of handler.Handle: an empty slice returns nil (and
\* Serve reads again); otherwise the cancellation watcher is started, the
\* context gets its deadline and the Handler is invoked with the slice.
doHandle ==
  /\ pc = "doHandle"
  /\ IF Len(HandleSlice) = 0
       THEN /\ pc' = "read"
            /\ UNCHANGED <<ctxVars, waiters, handled, hist>>
            /\ readFlags' = NoFlags
       ELSE /\ pc' = "handling"
            /\ handled' = Append(handled, HandleSlice)
            /\ waiters' = [waiters EXCEPT !.cur = TRUE]
            /\ ctxErr' = "active"
            /\ ctxLeft' = HandleTimeout
            /\ hist' = [hist EXCEPT
                 !.startedAfterDone = @ + (IF done THEN 1 ELSE 0),
                 !.lateStartDone = @ \/ readFlags.done,
                 !.lateStartExpired = @ \/ readFlags.expired]
            /\ readFlags' = NoFlags
  /\ UNCHANGED <<n, err, buf, ret, timeout, poolVars, timerVars, idle, done, connVars,
                 netVars, received>>

\* What a Handler invocation may return: nil, an error of its own, or the
\* error of its context once that is cancelled.
HandlerMayReturn ==
  HandlerResults \cup
    (IF ctxErr \in {"Canceled", "DeadlineExceeded"} THEN {ctxErr} ELSE {})

\* Mutant: the Handler's error is dropped and the loop goes on.
HandlerReturn_Swallow(v) ==
  /\ pc = "handling"
  /\ v \in HandlerMayReturn
  /\ ctxErr' = IF ctxErr = "active" THEN "Canceled" ELSE ctxErr
  /\ ctxLeft' = 0
  /\ pc' = "read"
  /\ hist' = [hist EXCEPT !.completed = @ + 1,
                          !.handlerErr = IF v = "nil" THEN @ ELSE v,
                          !.handleElapsed = 0]
  /\ UNCHANGED <<n, err, buf, ret, readFlags>>
  /\ waiters' = [cur |-> FALSE,
                  old |-> waiters.old + (IF waiters.cur THEN 1 ELSE 0)]
  /\ UNCHANGED <<timeout, poolVars, timerVars, idle, done, connVars, netVars, handled,
                 received>>

\* handler.Handle returns v; the deferred cancelTimeout releases the
\* context; doHandle returns v to Serve, which returns it when it is an error
\* and reads again otherwise. The dispatch's cancellation watcher, if it has
\* not run, stays behind.
HandlerReturn(v) ==
  /\ pc = "handling"
  /\ v \in HandlerMayReturn
  /\ ctxErr' = IF ctxErr = "active" THEN "Canceled" ELSE ctxErr
  /\ ctxLeft' = 0
  /\ LET h == [hist EXCEPT !.completed = @ + 1,
                           !.handlerErr = IF v = "nil" THEN @ ELSE v,
                           !.handleElapsed = 0]
     IN IF v # "nil"
          THEN Return(v, h)
          ELSE /\ pc' = "read"
               /\ hist' = h
               /\ UNCHANGED <<n, err, buf, ret, readFlags>>
  /\ waiters' = [cur |-> FALSE,
                  old |-> waiters.old + (IF waiters.cur THEN 1 ELSE 0)]
  /\ UNCHANGED <<timeout, poolVars, timerVars, idle, done, connVars, netVars, handled,
                 received>>

\* ------------------------------------------------- background goroutines

\* go func() { <-timer.C ... : the idle watcher receives the timer's value.
IdleWatcherWake ==
  /\ idle = "wait"
  /\ timerC
  /\ timerC' = FALSE
  /\ idle' = "woken"
  /\ UNCHANGED <<serveVars, timeout, poolVars, timerLeft, done, connVars, netVars,
                 ctxVars, waiters, handled, received, readFlags, hist>>

\* Mutant: the watcher waits for the timer again after closing.
IdleWatcherClose_Loop ==
  /\ idle = "woken"
  /\ idle' = "wait"
  /\ connClosed' = TRUE
  /\ closedBy' = IF closedBy = "none" THEN "watcher" ELSE closedBy
  /\ hist' = [hist EXCEPT !.closes = @ + 1]
  /\ UNCHANGED <<serveVars, timeout, poolVars, timerVars, done, netVars, ctxVars,
                 waiters, handled, received, readFlags>>

\* ... connection.Close() }()
IdleWatcherClose ==
  /\ idle = "woken"
  /\ idle' = "exit"
  /\ connClosed' = TRUE
  /\ closedBy' = IF closedBy = "none" THEN "watcher" ELSE closedBy
  /\ hist' = [hist EXCEPT !.closes = @ + 1]
  /\ UNCHANGED <<serveVars, timeout, poolVars, timerVars, done, netVars, ctxVars,
                 waiters, handled, received, readFlags>>

\* Mutant: the watcher ends without cancelling the context.
CancelWatcher_NoCancel ==
  /\ waiters.cur
  /\ done
  /\ waiters' = [waiters EXCEPT !.cur = FALSE]
  /\ UNCHANGED <<serveVars, timeout, poolVars, timerVars, idle, done, connVars, netVars,
                 ctxVars, handled, received, readFlags, hist>>

\* go func() { <-done; cancelDone() }() of the dispatch in flight: once done
\* is closed it cancels the Handler's context and ends.
CancelWatcher ==
  /\ waiters.cur
  /\ done
  /\ waiters' = [waiters EXCEPT !.cur = FALSE]
  /\ ctxErr' = IF ctxErr = "active" THEN "Canceled" ELSE ctxErr
  /\ UNCHANGED <<serveVars, timeout, poolVars, timerVars, idle, done, connVars, netVars,
                 ctxLeft, handled, received, readFlags, hist>>

\* The same goroutine of a dispatch that has returned: its cancelDone finds
\* the context already released.
CancelWatcherOld ==
  /\ waiters.old > 0
  /\ done
  /\ waiters' = [waiters EXCEPT !.old = @ - 1]
  /\ UNCHANGED <<serveVars, timeout, poolVars, timerVars, idle, done, connVars, netVars,
                 ctxVars, handled, received, readFlags, hist>>

\* ------------------------------------------------------------ environment

\* The caller closes the done channel.
FireDone ==
  /\ ~done
  /\ done' = TRUE
  /\ UNCHANGED <<serveVars, timeout, poolVars, timerVars, idle, connVars, netVars,
                 ctxVars, waiters, handled, received, readFlags, hist>>

\* The caller closes the connection.
CallerClose ==
  /\ ~connClosed
  /\ connClosed' = TRUE
  /\ closedBy' = "caller"
  /\ hist' = [hist EXCEPT !.doneAtClose = done]
  /\ UNCHANGED <<serveVars, timeout, poolVars, timerVars, idle, done, netVars, ctxVars,
                 waiters, handled, received, readFlags>>

\* A datagram reaches the socket and is queued. The socket's receive buffer
\* is sized for one datagram (setSRCSConnectionOptions): one arriving while
\* another waits is dropped, as is one that nobody will read.
Arrive ==
  /\ pc # "returned"
  /\ ~connClosed
  /\ arrived < MaxDatagrams
  /\ inbox = <<>>
  /\ inbox' = Append(inbox, arrived + 1)
  /\ arrived' = arrived + 1
  /\ hist' = [hist EXCEPT !.sinceArrival = IF @ < timeout THEN 0 ELSE @]
  /\ UNCHANGED <<serveVars, timeout, poolVars, timerVars, idle, done, connVars, ctxVars,
                 waiters, handled, received, readFlags>>

\* One unit of time passes. The idle timer, when armed, counts down and on
\* reaching zero sends on its channel (buffered, one slot); the Handler
\* context's deadline, while the context is live, counts down and on reaching
\* zero cancels the context with DeadlineExceeded.
\* Mutant: the timer is stopped when Serve returns.
IdleArmed_UntilReturn == timeout > 0 /\ timerLeft > 0 /\ pc # "returned"

IdleArmed == timeout > 0 /\ timerLeft > 0
DeadlineArmed == pc = "handling" /\ ctxErr = "active" /\ ctxLeft > 0

\* Some goroutine of Serve can take a step.
Runnable ==
  \/ pc \in {"select", "reset", "checkErr", "doHandle"}
  \/ pc = "read" /\ (inbox # <<>> \/ connClosed)
  \/ idle = "wait" /\ timerC
  \/ idle = "woken"
  \/ done /\ (waiters.cur \/ waiters.old > 0)

Tick ==
  /\ ~Runnable
  /\ IdleArmed \/ DeadlineArmed
  /\ timerLeft' = IF IdleArmed THEN timerLeft - 1 ELSE timerLeft
  /\ timerC' = (timerC \/ (IdleArmed /\ timerLeft = 1))
  /\ ctxLeft' = IF DeadlineArmed THEN ctxLeft - 1 ELSE ctxLeft
  /\ ctxErr' = IF DeadlineArmed /\ ctxLeft = 1 THEN "DeadlineExceeded" ELSE ctxErr
  /\ hist' = IF pc = "returned" THEN hist ELSE [hist EXCEPT
       !.sinceArrival = Min(@ + 1, timeout),
       !.sinceReset = Min(@ + 1, timeout),
       !.handleElapsed = IF pc = "handling" THEN Min(@ + 1, HandleTimeout) ELSE @]
  /\ UNCHANGED <<serveVars, timeout, poolVars, idle, done, connVars, netVars, waiters,
                 handled, received, readFlags>>

\* ------------------------------------------------------- the buffer pool

\* Each borrower calls GetBufferPool, then borrows a buffer with Get, uses
\* it, and gives it back with Put; then it borrows again, from the pool it
\* has or after asking GetBufferPool again. A borrower's pc:
\*   "call"    about to enter once.Do
\*   "lock"    in once.Do's slow path, waiting for the mutex
\*   "init"    holding the mutex, about to run the initialisation
\*   "unlock"  holding the mutex, about to release it
\*   "ret"     about to return singletonBufferPool
\*   "ready"   holds a pool, no buffer
\*   "using"   holds a buffer, which it reads and writes

At(b, loc) == borrowers[b].pc = loc

Goto(b, loc) == borrowers' = [borrowers EXCEPT ![b].pc = loc]

\* Mutant: the singleton is guarded by a nil test in place of sync.Once.
OnceDo_NilTest(b) ==
  /\ At(b, "call")
  /\ Goto(b, IF singletonBufferPool = 0 THEN "init" ELSE "ret")
  /\ UNCHANGED <<once, singletonBufferPool, instances, pool, allocated>>
  /\ UNCHANGED <<serveVars, timeout, timerVars, idle, done, connVars, netVars,
                 ctxVars, waiters, handled, received, readFlags, hist>>

\* once.Do(...): the fast path reads the flag; if it is not set the caller
\* goes on to take the mutex.
OnceDo(b) ==
  /\ At(b, "call")
  /\ Goto(b, IF once.done THEN "ret" ELSE "lock")
  /\ UNCHANGED <<once, singletonBufferPool, instances, pool, allocated>>
  /\ UNCHANGED <<serveVars, timeout, timerVars, idle, done, connVars, netVars,
                 ctxVars, waiters, handled, received, readFlags, hist>>

\* once.Do's slow path: with the mutex held the flag is read again, and the
\* initialisation runs only if it is still not set.
OnceLock(b) ==
  /\ At(b, "lock")
  /\ ~once.m
  /\ once' = [once EXCEPT !.m = TRUE]
  /\ Goto(b, IF once.done THEN "unlock" ELSE "init")
  /\ UNCHANGED <<singletonBufferPool, instances, pool, allocated>>
  /\ UNCHANGED <<serveVars, timeout, timerVars, idle, done, connVars, netVars,
                 ctxVars, waiters, handled, received, readFlags, hist>>

\* singletonBufferPool = &bufferPool{...}: a new instance, with an empty
\* sync.Pool; then once's flag is set.
OnceInit(b) ==
  /\ At(b, "init")
  /\ instances' = instances + 1
  /\ singletonBufferPool' = instances + 1
  /\ once' = [once EXCEPT !.done = TRUE]
  /\ Goto(b, "unlock")
  /\ UNCHANGED <<pool, allocated>>
  /\ UNCHANGED <<serveVars, timeout, timerVars, idle, done, connVars, netVars,
                 ctxVars, waiters, handled, received, readFlags, hist>>

\* once.Do releases its mutex.
OnceUnlock(b) ==
  /\ At(b, "unlock")
  /\ once' = [once EXCEPT !.m = FALSE]
  /\ Goto(b, "ret")
  /\ UNCHANGED <<singletonBufferPool, instances, pool, allocated>>
  /\ UNCHANGED <<serveVars, timeout, timerVars, idle, done, connVars, netVars,
                 ctxVars, waiters, handled, received, readFlags, hist>>

\* return singletonBufferPool
GetBufferPool(b) ==
  /\ At(b, "ret")
  /\ borrowers' = [borrowers EXCEPT ![b].pc = "ready",
                                    ![b].bp = singletonBufferPool]
  /\ UNCHANGED <<once, singletonBufferPool, instances, pool, allocated>>
  /\ UNCHANGED <<serveVars, timeout, timerVars, idle, done, connVars, netVars,
                 ctxVars, waiters, handled, received, readFlags, hist>>

\* Mutant: Get hands out a pooled buffer and leaves it in the pool.
Get_NoRemove(b, x) ==
  /\ At(b, "ready")
  /\ borrowers[b].bp # 0
  /\ x \in pool[borrowers[b].bp]
  /\ borrowers' = [borrowers EXCEPT ![b].pc = "using", ![b].held = x,
                                    ![b].from = "pool"]
  /\ UNCHANGED <<once, singletonBufferPool, instances, pool, allocated>>
  /\ UNCHANGED <<serveVars, timeout, timerVars, idle, done, connVars, netVars,
                 ctxVars, waiters, handled, received, readFlags, hist>>

\* bp.pool.Get().([]byte), served from the pool: sync.Pool removes one of
\* the buffers it holds, any of them, and returns it.
Get(b, x) ==
  /\ At(b, "ready")
  /\ borrowers[b].bp # 0
  /\ x \in pool[borrowers[b].bp]
  /\ pool' = [pool EXCEPT ![borrowers[b].bp] = @ \ {x}]
  /\ borrowers' = [borrowers EXCEPT ![b].pc = "using", ![b].held = x,
                                    ![b].from = "pool"]
  /\ UNCHANGED <<once, singletonBufferPool, instances, allocated>>
  /\ UNCHANGED <<serveVars, timeout, timerVars, idle, done, connVars, netVars,
                 ctxVars, waiters, handled, received, readFlags, hist>>

\* bp.pool.Get().([]byte), served by New: sync.Pool finds nothing to give
\* (it may also pass over what it holds) and newBuffer makes a buffer of
\* MaxDatagramSize bytes.
newBuffer(b) ==
  /\ At(b, "ready")
  /\ borrowers[b].bp # 0
  /\ allocated < MaxBuffers
  /\ allocated' = allocated + 1
  /\ borrowers' = [borrowers EXCEPT ![b].pc = "using",
                                    ![b].held = allocated + 1,
                                    ![b].from = "new"]
  /\ UNCHANGED <<once, singletonBufferPool, instances, pool>>
  /\ UNCHANGED <<serveVars, timeout, timerVars, idle, done, connVars, netVars,
                 ctxVars, waiters, handled, received, readFlags, hist>>

\* bp.pool.Put(buffer): the borrower gives its buffer back and keeps no
\* reference to it. It goes on with the pool it has, or asks GetBufferPool
\* again.
Put(b, again) ==
  /\ At(b, "using")
  /\ pool' = [pool EXCEPT ![borrowers[b].bp] = @ \cup {borrowers[b].held}]
  /\ borrowers' = [borrowers EXCEPT
       ![b].pc = IF again THEN "call" ELSE "ready",
       ![b].held = 0,
       ![b].from = "none"]
  /\ UNCHANGED <<once, singletonBufferPool, instances, allocated>>
  /\ UNCHANGED <<serveVars, timeout, timerVars, idle, done, connVars, netVars,
                 ctxVars, waiters, handled, received, readFlags, hist>>

\* sync.Pool may drop what it holds at any time (the garbage collector
\* empties it); a dropped buffer is never handed out again.
PoolDrop(i) ==
  /\ pool[i] # {}
  /\ pool' = [pool EXCEPT ![i] = {}]
  /\ UNCHANGED <<once, singletonBufferPool, instances, allocated, borrowers>>
  /\ UNCHANGED <<serveVars, timeout, timerVars, idle, done, connVars, netVars,
                 ctxVars, waiters, handled, received, readFlags, hist>>

\* ---------------------------------------------------------- specifications

Next ==
  \/ \E len \in Lengths : ReadDatagram(len)
  \/ ReadClosed
  \/ ReadError
  \/ SelectDone
  \/ TimerReset
  \/ CheckReadError
  \/ doHandle
  \/ \E v \in HandlerResults \cup {"Canceled", "DeadlineExceeded"} : HandlerReturn(v)
  \/ IdleWatcherWake
  \/ IdleWatcherClose
  \/ CancelWatcher
  \/ CancelWatcherOld
  \/ FireDone
  \/ CallerClose
  \/ Arrive
  \/ Tick

Spec == Init /\ [][Next]_vars

\* The Go scheduler runs every goroutine that can run: the loop's own steps,
\* a read that can return, and the watchers. The environment (arrivals, done,
\* the caller's Close, a failing read), the Handler's return and the passage
\* of time are not forced.
FairSpec ==
  /\ Spec
  /\ WF_vars((\E len \in Lengths : ReadDatagram(len)) \/ ReadClosed)
  /\ WF_vars(SelectDone)
  /\ WF_vars(TimerReset)
  /\ WF_vars(CheckReadError)
  /\ WF_vars(doHandle)
  /\ WF_vars(IdleWatcherWake)
  /\ WF_vars(IdleWatcherClose)
  /\ WF_vars(CancelWatcher)
  /\ WF_vars(CancelWatcherOld)

\* The users of the buffer pool, on their own: Serve does not draw its
\* scratch buffer from the pool, so the two do not interact.
PoolInit == Init /\ timeout = 0

PoolNext ==
  \/ \E b \in Borrowers : OnceDo(b)
  \/ \E b \in Borrowers : OnceLock(b)
  \/ \E b \in Borrowers : OnceInit(b)
  \/ \E b \in Borrowers : OnceUnlock(b)
  \/ \E b \in Borrowers : GetBufferPool(b)
  \/ \E b \in Borrowers : \E x \in 1..MaxBuffers : Get(b, x)
  \/ \E b \in Borrowers : newBuffer(b)
  \/ \E b \in Borrowers : \E again \in BOOLEAN : Put(b, again)
  \/ \E i \in Borrowers : PoolDrop(i)

PoolSpec == PoolInit /\ [][PoolNext]_vars

\* ------------------------------------------------------------------ claims

NonEmpty(seq) == SelectSeq(seq, LAMBDA p : Len(p) > 0)

\* A datagram has been read and Serve has neither dispatched nor dropped it yet.
Pending == pc \in {"select", "reset", "checkErr", "doHandle"} /\ err = "nil"

\* The datagrams read so far that passed the done check and the timer reset.
Passed ==
  SubSeq(received, 1,
         Len(received) - (IF Pending \/ hist.dropped THEN 1 ELSE 0))

\* C1, as stated: the Handler is invoked exactly once for every datagram that
\* was read and passed the done check and the timer reset, in the order read,
\* with exactly the bytes read.
C1_Original == handled = Passed

\* C1, amended: the same for every such datagram of non-zero length; a
\* datagram of length zero gets no invocation.
C1_Amended == handled = NonEmpty(Passed)

\* C1 witness: two datagrams were handled, the second shorter than the first
\* (the buffer still holds bytes of the first behind it).
C1_Witness ==
  /\ pc = "read"
  /\ Len(handled) = 2
  /\ Len(handled[2]) < Len(handled[1])

\* C2, as stated: whenever Serve has returned with done fired, it returned nil.
C2_Original == (pc = "returned" /\ hist.doneAtReturn) => ret = "nil"

\* The loop is at a read that will return: a datagram waits, the connection
\* is closed, or the expired idle timer's watcher is about to close it.
ReadWillReturn ==
  pc = "read" /\ (inbox # <<>> \/ connClosed \/ TimerExpired)

\* C2, amended: once done has fired and the loop is at its done check, or at a
\* read that will return, Serve eventually returns nil.
C2_Amended ==
  (done /\ (pc = "select" \/ ReadWillReturn)) ~> (pc = "returned" /\ ret = "nil")

\* C2 witness: Serve returned nil because of done, the connection still open.
C2_Witness ==
  /\ pc = "returned"
  /\ ret = "nil"
  /\ hist.doneAtReturn
  /\ ~hist.expiredAtReturn
  /\ ~connClosed

\* C3, as stated: no Handler invocation begins after done fired.
C3_Original == hist.startedAfterDone = 0

\* C3, amended: no datagram read after done fired is dispatched, and at most
\* one Handler invocation begins after done fired (that of the datagram whose
\* done check came before the firing).
C3_Amended == ~hist.lateStartDone /\ hist.startedAfterDone <= 1

\* C3 witness: a Handler invocation began after done fired.
C3_Witness == hist.startedAfterDone = 1 /\ pc = "handling"

\* C4, as stated: whenever Serve has returned with the idle timer expired, it
\* returned nil.
C4_Original == (pc = "returned" /\ hist.expiredAtReturn) => ret = "nil"

\* C4, amended: if the idle timer expires, or has expired, while the loop is
\* at its read (no Handler invocation in flight), Serve eventually returns
\* nil and the connection is closed.
C4_Amended ==
  (TimerExpired /\ pc = "read") ~> (pc = "returned" /\ ret = "nil" /\ connClosed)

\* C4 witness: no datagram came, the watcher closed the connection and Serve
\* returned nil without done.
C4_Witness ==
  /\ pc = "returned"
  /\ ret = "nil"
  /\ closedBy = "watcher"
  /\ arrived = 0
  /\ ~done

\* No read and no Handler invocation has failed.
NoErrors == err = "nil" /\ ret \in {"none", "nil"} /\ hist.handlerErr = "none"

\* The idle timer has not expired, its watcher has not closed the connection
\* and Serve has not returned.
KeptAlive ==
  /\ timerLeft > 0
  /\ idle = "wait"
  /\ closedBy # "watcher"
  /\ pc # "returned"

\* C5, as stated: with timeout > 0, no cancellation and no error, as long as
\* every gap between arrivals (the first counted from the start of Serve) has
\* been shorter than timeout, the timer has not expired, the watcher has not
\* closed the connection and Serve has not returned.
C5_Original ==
  (timeout > 0 /\ hist.sinceArrival < timeout /\ ~done /\ NoErrors) => KeptAlive

\* C5, amended: the same with the gaps between timer resets (the first
\* counted from the start of Serve) in place of the gaps between arrivals:
\* the countdown restarts when a read has returned and passed the done check,
\* not when a datagram arrives.
C5_Amended ==
  (timeout > 0 /\ hist.sinceReset < timeout /\ ~done /\ NoErrors) => KeptAlive

\* C5 witness: two datagrams were handled, time has passed since the last
\* reset and the loop is alive.
C5_Witness ==
  /\ timeout > 0
  /\ hist.completed = 2
  /\ hist.sinceReset > 0
  /\ hist.sinceReset < timeout
  /\ ~done
  /\ NoErrors
  /\ KeptAlive

\* C6: once a Handler invocation has returned an error, Serve has returned
\* exactly that error; nothing was read or dispatched after it.
C6_HandlerErrorFatal ==
  hist.handlerErr # "none" =>
    /\ pc = "returned"
    /\ ret = hist.handlerErr
    /\ hist.completed = Len(handled)
    /\ Len(NonEmpty(received)) = Len(handled)

\* C6 witness: the first invocation failed while another datagram waited.
C6_Witness ==
  /\ ret = "ErrHandler"
  /\ hist.completed = 1
  /\ inbox # <<>>

\* C7: a read of zero bytes that reaches doHandle (no error, done not seen,
\* timer not expired) invokes no Handler and returns no error: the loop's
\* next step takes it back to the read, nothing else changed.
C7_ZeroLengthSkipped ==
  [][(pc = "doHandle" /\ n = 0 /\ pc' # pc) =>
       /\ pc' = "read"
       /\ UNCHANGED <<ret, handled, ctxErr, ctxLeft, waiters>>
       /\ hist'.completed = hist.completed]_vars

\* C7 witness: an empty datagram went through and the loop reads again.
C7_Witness ==
  /\ pc = "read"
  /\ received = << <<>> >>
  /\ handled = <<>>
  /\ ret = "none"

\* C8: Serve never returns the error of a read that failed because the idle
\* watcher closed the connection (a returned ErrClosed comes from the
\* caller's Close), and no datagram read after the timer expired is dispatched.
C8_IdleExpiryClean ==
  /\ ret = "ErrClosed" => closedBy = "caller"
  /\ ~hist.lateStartExpired

\* C8 witness: the timer expired, a datagram was still read and dropped, Serve
\* returned nil and the watcher closed the connection.
C8_Witness ==
  /\ pc = "returned"
  /\ ret = "nil"
  /\ hist.dropped
  /\ hist.expiredAtReturn
  /\ ~hist.doneAtReturn
  /\ closedBy = "watcher"

ContextCancelled == ctxErr \in {"Canceled", "DeadlineExceeded"}

\* C9: while a Handler invocation is in flight, its context is cancelled once
\* HandleTimeout has elapsed since the dispatch began, and the loop does
\* nothing (no read, no return) until the invocation returns.
C9_DeadlineAndWait ==
  /\ []((pc = "handling" /\ hist.handleElapsed >= HandleTimeout) => ContextCancelled)
  /\ [][pc = "handling" =>
          \/ UNCHANGED <<serveVars, handled, received>>
          \/ hist'.completed = hist.completed + 1]_vars

\* C9 witness: the deadline passed with the Handler still in flight.
C9_Witness ==
  /\ pc = "handling"
  /\ ctxErr = "DeadlineExceeded"
  /\ hist.handleElapsed = HandleTimeout
  /\ ~done

\* C10: if done has fired while a Handler invocation is in flight, its
\* context is eventually cancelled without the Handler returning or time
\* passing; a cancelled context keeps its first cause, which is done
\* (Canceled) or the elapsed deadline (DeadlineExceeded).
C10_DoneCancelsContext ==
  /\ (pc = "handling" /\ done) ~> ContextCancelled
  /\ []((pc = "handling" /\ ctxErr = "Canceled") => done)
  /\ []((pc = "handling" /\ ctxErr = "DeadlineExceeded") =>
          hist.handleElapsed >= HandleTimeout)
  /\ [][(pc = "handling" /\ ContextCancelled /\ pc' = "handling") =>
          ctxErr' = ctxErr]_vars

\* C10 witness: done cancelled the context before the deadline.
C10_Witness ==
  /\ pc = "handling"
  /\ done
  /\ ctxErr = "Canceled"
  /\ hist.handleElapsed < HandleTimeout

\* C11: after Serve has returned because the done channel was closed, no
\* goroutine that Serve started closes the connection.
C11_NoCloseAfterDone ==
  [][(pc = "returned" /\ ret = "nil" /\ hist.doneAtReturn
        /\ ~hist.expiredAtReturn)
       => hist'.closes = hist.closes]_vars

\* C12: a read error met with done not fired and the timer not expired goes
\* through the done test and the timer reset unchanged and is then what
\* Serve returns; nothing is dispatched and nothing is read on the way.
C12_ReadErrorReturned ==
  [][(err # "nil" /\ pc' # pc) =>
       /\ handled' = handled
       /\ received' = received
       /\ pc' \in {"reset", "checkErr", "returned"}
       /\ (pc = "select" /\ ~done) => (pc' = "reset" /\ err' = err)
       /\ (pc = "reset" /\ ~TimerExpired) => (pc' = "checkErr" /\ err' = err)
       /\ pc = "checkErr" => (pc' = "returned" /\ ret' = err)]_vars

C12_Witness ==
  /\ pc = "returned"
  /\ ret = "ErrIO"
  /\ timeout > 0
  /\ ~hist.doneAtReturn
  /\ ~hist.expiredAtReturn

\* C13: the Handler invocations begun and not yet returned are at most one,
\* and there is one exactly while the loop waits in the dispatch: whenever
\* the loop is at its read, or anywhere else, none is in flight.
C13_OneAtATime ==
  Len(handled) = hist.completed + (IF pc = "handling" THEN 1 ELSE 0)

C13_Witness ==
  /\ pc = "handling"
  /\ Len(handled) = 1
  /\ inbox # <<>>

\* C14: the initialisation inside once.Do runs at most once, whatever the
\* number of callers racing through their first call, and every caller that
\* GetBufferPool has answered holds that one instance: never nil, never
\* another.
C14_Singleton ==
  /\ instances <= 1
  /\ singletonBufferPool = instances
  /\ \A b \in Borrowers :
       borrowers[b].pc \in {"ready", "using"} => borrowers[b].bp = 1

C14_Witness ==
  \E b1, b2 \in Borrowers :
    /\ b1 # b2
    /\ At(b1, "ready")
    /\ borrowers[b1].bp = 1
    /\ At(b2, "unlock")
    /\ borrowers[b2].bp = 0
    /\ instances = 1

\* C15: a buffer a borrower got from Get and has not Put back is held by no
\* other borrower and is not in the pool, so the next Get cannot return it;
\* only a borrower that holds a buffer accesses it, so a buffer lying in the
\* pool between its Put and its next Get is accessed by nobody.
C15_ExclusiveBuffers ==
  \A b1 \in Borrowers :
    At(b1, "using") =>
      /\ borrowers[b1].held \in 1..allocated
      /\ \A i \in Borrowers : borrowers[b1].held \notin pool[i]
      /\ \A b2 \in Borrowers \ {b1} :
           At(b2, "using") => borrowers[b2].held # borrowers[b1].held

C15_Witness ==
  \E b1, b2 \in Borrowers :
    /\ b1 # b2
    /\ At(b1, "using")
    /\ borrowers[b1].from = "pool"
    /\ At(b2, "using")
    /\ borrowers[b2].from = "pool"

\* C16 as stated: whenever the caller has closed the connection and closed
\* done before Serve returned, Serve does not return the read error that the
\* closure caused.
C16_Original ==
  ~(ret = "ErrClosed" /\ closedBy = "caller" /\ hist.doneAtReturn)

\* C16, amended: if done was already closed when the caller closed the
\* connection, the read error of the closure never gets past the done test
\* and Serve never returns it.
C16_Amended ==
  hist.doneAtClose =>
    /\ ret # "ErrClosed"
    /\ err = "ErrClosed" => pc = "select"

C16_Witness ==
  /\ hist.doneAtClose
  /\ pc = "select"
  /\ err = "ErrClosed"
  /\ handled = <<>>

\* C17: the cancellation watchers alive are at most the one of the dispatch
\* in flight: none is left over from a dispatch that has returned.
C17_WatchersShortLived ==
  /\ waiters.old = 0
  /\ waiters.cur => pc = "handling"

\* C18: the idle watcher calls Close on the connection at most once in a
\* run, however often the timer expires and is reset.
C18_CloseAtMostOnce == hist.closes <= 1

C18_Witness ==
  /\ hist.closes = 1
  /\ idle = "exit"
  /\ pc = "returned"
  /\ hist.expiredAtReturn
  /\ TimerExpired
  /\ timerC

\* C19: Serve returns nil only from the done test with done closed or from
\* a timer reset (timeout > 0) that found the timer expired, both reached
\* only after a read has returned; it returns a non-nil value only from the
\* read-error test, and then the read's error, or from a Handler invocation,
\* and then the error the Handler returned.
C19_ReturnClassified ==
  [][(pc # "returned" /\ pc' = "returned") =>
       /\ ret' = "nil" =>
            \/ pc = "select" /\ done
            \/ pc = "reset" /\ timeout > 0 /\ TimerExpired
       /\ ret' # "nil" =>
            \/ pc = "checkErr" /\ err # "nil" /\ ret' = err
            \/ /\ pc = "handling"
               /\ ret' \in HandlerMayReturn
               /\ ret' = hist'.handlerErr]_vars

C19_Witness ==
  /\ pc = "returned"
  /\ ret = "nil"
  /\ hist.expiredAtReturn
  /\ ~done

\* C20: with timeout > 0 the timer goes on running after Serve has returned:
\* if it had not expired by then the watcher is still waiting on it, and once
\* it has expired the watcher calls Close on the connection.
C20_WatcherOutlivesServe ==
  /\ []((pc = "returned" /\ timeout > 0 /\ ~hist.expiredAtReturn /\ timerLeft > 0)
          => (idle = "wait" /\ IdleArmed))
  /\ (pc = "returned" /\ timeout > 0 /\ TimerExpired)
       ~> (hist.closes = 1 /\ connClosed)

C20_Witness ==
  /\ pc = "returned"
  /\ ret \in {"ErrIO", "ErrHandler"}
  /\ ~hist.expiredAtReturn
  /\ hist.closes = 1
  /\ closedBy = "watcher"

====
